---- MODULE Spec2Model ----
(***************************************************************************)
(* Signal-Prophet: the numeric signal compute engine.                      *)
(*                                                                         *)
(*   src/convolution.py        the command-line convolution visualizer:    *)
(*                             primitives u and d, the module global       *)
(*                             DELTA_WIDTH, make_fn, the support scan,     *)
(*                             main()                                      *)
(*   src/api/core/symbolic.py  compute_convolution, the API's port of it   *)
(*                                                                         *)
(* Numbers.  Times and widths are integers in one common unit (the unit is *)
(* temp_delta, 1e-2 in the source), so a grid of spacing s is lo + k*s.    *)
(* A float the code obtains by a division is kept as an exact fraction     *)
(* [num, den].  An Optional[float] is the empty set (None) or a singleton. *)
(***************************************************************************)
EXTENDS Integers, Sequences, FiniteSets, TLC

\* ------------------------------------------------------------------ bounds
\* largest |t| of a sample handed to a primitive
MaxT == 2
\* longest array handed to a primitive
MaxLen == 3
\* largest grid spacing (in units of temp_delta)
MaxStep == 3
\* number of points of the tau grid in the impulse-area computation
MaxGrid == 6

\* ------------------------------------------------------------ Optional[T]
None == {}
Some(v) == {v}
IsNone(o) == o = {}
TheVal(o) == CHOOSE v \in o : TRUE

Abs(n) == IF n < 0 THEN -n ELSE n
SetMin(S) == CHOOSE m \in S : \A x \in S : m <= x

\* ------------------------------------------------------------- primitives
\* The values a primitive is handed: a Python float or a 1-d ndarray.
PyFloat(v) == [type |-> "float", shape |-> "", data |-> <<v>>]
NdArray(vs) == [type |-> "ndarray", shape |-> "1d", data |-> vs]

\* np.asarray(t): a scalar becomes a 0-d array holding it, an array is
\* handed back as it is.
asarray(t) == IF t.type = "float"
              THEN [type |-> "ndarray", shape |-> "0d", data |-> t.data]
              ELSE t

\* the unit step without its second mask assignment: u(0) = 0
u_strict(t) ==
    LET a     == asarray(t)
        zeros == [i \in DOMAIN a.data |-> 0]
        out1  == [i \in DOMAIN a.data |-> IF a.data[i] > 0 THEN 1 ELSE zeros[i]]
    IN  [shape |-> a.shape, data |-> out1]

\* u(t): out = zeros_like(t); out[t > 0] = 1.0; out[t == 0] = 1.0
u(t) ==
    LET a     == asarray(t)
        zeros == [i \in DOMAIN a.data |-> 0]
        out1  == [i \in DOMAIN a.data |-> IF a.data[i] > 0 THEN 1 ELSE zeros[i]]
        out2  == [i \in DOMAIN a.data |-> IF a.data[i] = 0 THEN 1 ELSE out1[i]]
    IN  [shape |-> a.shape, data |-> out2]

\* the impulse with a built-in width 1 used when none is configured
d_default(t, width, ambient) ==
    LET w0 == IF ~IsNone(width) THEN width ELSE ambient
        w  == IF IsNone(w0) THEN Some(1) ELSE w0
        a  == asarray(t)
    IN  [raised |-> FALSE, shape |-> a.shape, den |-> TheVal(w),
         num |-> [i \in DOMAIN a.data |->
                    IF 2 * Abs(a.data[i]) <= TheVal(w) THEN 1 ELSE 0]]

\* d(t, width=None): w = width if width is not None else DELTA_WIDTH;
\* RuntimeError when w is None; else (|t| <= 0.5*w).astype(float) / w.
\* The result is the array of fractions num[i] / den.
d(t, width, ambient) ==
    LET w == IF ~IsNone(width) THEN width ELSE ambient
        a == asarray(t)
    IN  IF IsNone(w)
        THEN [raised |-> TRUE, shape |-> a.shape, den |-> 0, num |-> <<>>]
        ELSE [raised |-> FALSE, shape |-> a.shape, den |-> TheVal(w),
              num |-> [i \in DOMAIN a.data |->
                         IF 2 * Abs(a.data[i]) <= TheVal(w) THEN 1 ELSE 0]]

\* np.linspace(lo, lo + (n-1)*step, n): an evenly spaced grid
linspace(lo, step, n) == [k \in 1..n |-> lo + (k - 1) * step]

\* configure_delta_from_grid(tau): DELTA_WIDTH = float(abs(tau[1] - tau[0]))
\* (Python indexes from 0, a TLA+ sequence from 1)
configure_delta_from_grid(tau) == Some(Abs(tau[2] - tau[1]))

RECURSIVE SumTo(_, _)
SumTo(f, n) == IF n = 0 THEN 0 ELSE f[n] + SumTo(f, n - 1)

\* np.trapezoid(y, x) for y = num/den: sum of (x[i+1]-x[i]) * (y[i]+y[i+1]) / 2,
\* returned as the fraction num / den
trapezoid(ynum, yden, x) ==
    LET n     == Len(x)
        terms == [i \in 1..(n - 1) |-> (x[i + 1] - x[i]) * (ynum[i] + ynum[i + 1])]
    IN  [num |-> SumTo(terms, n - 1), den |-> 2 * yden]

\* ------------------------------------------------------------ expressions
\* The text a user enters, kept by what decides the code's paths:
\*   hasNp      the text contains "np."            (preprocess_expr raises)
\*   wellFormed "lambda t: <text>" compiles        (compile raises if not)
\*   names      the names the text refers to
\*   partial    evaluating it raises for some arguments (e.g. 1/0 in a
\*              conditional branch), apart from what d and the names do
E_step    == [text |-> "u(t)",      hasNp |-> FALSE, wellFormed |-> TRUE,
              names |-> {"u", "t"},   partial |-> FALSE]
E_impulse == [text |-> "d(t)",      hasNp |-> FALSE, wellFormed |-> TRUE,
              names |-> {"d", "t"},   partial |-> FALSE]
E_np      == [text |-> "np.exp(t)", hasNp |-> TRUE,  wellFormed |-> TRUE,
              names |-> {"np", "t"},  partial |-> FALSE]
E_open    == [text |-> "u(t",       hasNp |-> FALSE, wellFormed |-> FALSE,
              names |-> {"u", "t"},   partial |-> FALSE]
E_foo     == [text |-> "foo(t)",    hasNp |-> FALSE, wellFormed |-> TRUE,
              names |-> {"foo", "t"}, partial |-> FALSE]
E_partial == [text |-> "1/0 if t[0]>3 else u(t)", hasNp |-> FALSE,
              wellFormed |-> TRUE, names |-> {"u", "t"}, partial |-> TRUE]
Exprs == {E_step, E_impulse, E_np, E_open, E_foo, E_partial}

ALLOWED_NAMES == {"exp", "u", "d", "pi", "sin", "cos", "tan", "arctan",
                  "log", "sqrt", "abs", "sign"}

\* make_fn that hands back a constant-zero callable when building failed
make_fn_default(expr) ==
    IF expr.hasNp \/ ~expr.wellFormed
    THEN [outcome |-> "callable", fn |-> Some(E_step)]
    ELSE [outcome |-> "callable", fn |-> Some(expr)]

\* make_fn(expr): preprocess_expr raises ValueError on "np."; compile raises
\* SyntaxError on malformed text; eval of the lambda expression only builds
\* the function object and looks no name of its body up.  Any exception is
\* caught, printed, and the process exits (sys.exit(1)).
make_fn(expr) ==
    IF expr.hasNp \/ ~expr.wellFormed
    THEN [outcome |-> "exit", fn |-> None]
    ELSE [outcome |-> "callable", fn |-> Some(expr)]

\* Calling a callable built by make_fn on an array, as Python evaluates the
\* lambda's body: a name neither in ALLOWED_NAMES nor t raises NameError;
\* d raises when no width is active; a partial expression raises when its
\* argument is one it fails on (fail).  used is the width d worked with.
CallFn(expr, ambient, fail) ==
    IF ~(expr.names \subseteq ALLOWED_NAMES \cup {"t"})
    THEN [raised |-> TRUE, used |-> None]
    ELSE IF "d" \in expr.names
    THEN LET r == d(PyFloat(0), None, ambient)
         IN  [raised |-> r.raised,
              used |-> IF r.raised THEN None ELSE Some(r.den)]
    ELSE [raised |-> expr.partial /\ fail, used |-> None]

\* ------------------------------------------------------------------ state
\* temp_delta = 1e-2, the scan's temporary impulse width: the unit of widths
temp_delta == 1
\* N_T, the number of domain points of main's sweep (240 in the source)
NumT == 3
\* FRAMES, the number of animation frames main renders (120 in the source)
NumFrames == 2
\* how many times main() is run in one interpreter
MaxRuns == 2

Procs == {1, 2}
GridSteps == 1..MaxStep

VARIABLES
    DELTA_WIDTH,  \* the module global of convolution.py
    widthOwner,   \* history: [by, kind]: whose write produced it, and which write
    pc,           \* each thread's place in main()
    X_EXPR,       \* main: the text entered for x(t)
    H_EXPR,       \* main: the text entered for h(t)
    x_fn,         \* main: make_fn(X_EXPR), None before
    h_fn,         \* main: make_fn(H_EXPR), None before
    scanOf,       \* pick_ranges_auto: which signal is being scanned, "x" or "h"
    old,          \* _estimate_support_of: the saved DELTA_WIDTH
    oldOwner,     \* history: widthOwner when old was saved
    callWidth,    \* history: DELTA_WIDTH when _estimate_support_of was called
    scanExit,     \* _estimate_support_of: "interval", "none" or "raised"
    tauStep,      \* main: the spacing of the tau grid
    ti,           \* main: the sweep's index i, then the frame index k
    runs,         \* how many times the thread has entered main()
    readForeign,  \* history: the thread evaluated d with a width another wrote
    clobbered,    \* history: the thread overwrote a width another had configured
    failedAt,     \* history: where an evaluation of x_fn or h_fn raised ("" if none)
    unsetCall,    \* history: a signal using d was called while DELTA_WIDTH was None
    primFn,       \* the primitive applied last: "u", "d", "area" ("" before any)
    primArg,      \* its arguments
    primRes,      \* what it returned
    program,      \* what the interpreter runs: "cli" (convolution.py) or "api"
    apiPc,        \* the request's place in get_convolution / compute_convolution
    domain,       \* compute_convolution: 'continuous' or 'discrete'
    x_str,        \* compute_convolution: the text of x
    h_str,        \* compute_convolution: the text of h
    sx,           \* compute_convolution: the support estimate of x, or None
    sh,           \* compute_convolution: the support estimate of h, or None
    t_vals,       \* compute_convolution: the number of domain points (t_vals, n_vals)
    y_vals,       \* compute_convolution: the number of values appended to y_vals
    frames,       \* compute_convolution: the frames appended, in order
    apiResult,    \* what compute_convolution returned: "dict", "None" ("" before)
    apiStatus,    \* the HTTP status get_convolution answered with (0 before)
    apiFailedAt   \* history: where an evaluation raised ("" if none)

primVars == <<primFn, primArg, primRes>>

cliVars == <<DELTA_WIDTH, widthOwner, pc, X_EXPR, H_EXPR, x_fn, h_fn,
             scanOf, old, oldOwner, callWidth, scanExit, tauStep, ti, runs,
             readForeign, clobbered, failedAt, unsetCall>>

\* DELTA_WIDTH: Optional[float] = None, as the module is imported
AtImport == [by |-> 0, kind |-> "import"]

InitCli ==
    /\ program \in {"cli", "api"}
    /\ DELTA_WIDTH = None
    /\ widthOwner = AtImport
    /\ pc = [p \in Procs |-> "idle"]
    /\ X_EXPR = [p \in Procs |-> E_step]
    /\ H_EXPR = [p \in Procs |-> E_step]
    /\ x_fn = [p \in Procs |-> None]
    /\ h_fn = [p \in Procs |-> None]
    /\ scanOf = [p \in Procs |-> "x"]
    /\ old = [p \in Procs |-> None]
    /\ oldOwner = [p \in Procs |-> AtImport]
    /\ callWidth = [p \in Procs |-> None]
    /\ scanExit = [p \in Procs |-> "none"]
    /\ tauStep = [p \in Procs |-> 1]
    /\ ti = [p \in Procs |-> 0]
    /\ runs = [p \in Procs |-> 0]
    /\ readForeign = [p \in Procs |-> FALSE]
    /\ clobbered = [p \in Procs |-> FALSE]
    /\ failedAt = [p \in Procs |-> ""]
    /\ unsetCall = [p \in Procs |-> FALSE]

\* what main() never touches
restOfCli == <<program, primFn, primArg, primRes, apiPc, domain, x_str, h_str, sx, sh,
               t_vals, y_vals, frames, apiResult, apiStatus, apiFailedAt>>

Terminal == {"done", "crashed", "exited"}
\* the places of main() that work with the width main configured
Configured == {"pre_x", "pre_h", "sweep", "anim_h", "anim_x"}

\* What a call of x_fn or h_fn at place where leaves behind, r its outcome.
Called(p, expr, r, where) ==
    /\ readForeign' = [readForeign EXCEPT
                         ![p] = @ \/ (~IsNone(r.used) /\ widthOwner.by # p)]
    /\ failedAt' = [failedAt EXCEPT ![p] = IF r.raised THEN where ELSE @]
    /\ unsetCall' = [unsetCall EXCEPT
                       ![p] = @ \/ ("d" \in expr.names /\ IsNone(DELTA_WIDTH))]

NoCall == UNCHANGED <<readForeign, failedAt, unsetCall>>

\* A write of DELTA_WIDTH by p overwrites a width another thread configured
\* and still computes with.
Overwrites(p) ==
    /\ widthOwner.by \notin {0, p}
    /\ widthOwner.kind = "configure"
    /\ pc[widthOwner.by] \in Configured

\* main: X_EXPR = input("x(t): "), H_EXPR = input("h(t): "), the texts
\* entered being among E
StartWith(p, E) ==
    /\ program = "cli"
    /\ pc[p] = "idle"
    /\ \E ex \in E, eh \in E :
         /\ X_EXPR' = [X_EXPR EXCEPT ![p] = ex]
         /\ H_EXPR' = [H_EXPR EXCEPT ![p] = eh]
    /\ runs' = [runs EXCEPT ![p] = @ + 1]
    /\ pc' = [pc EXCEPT ![p] = "make_x"]
    /\ NoCall
    /\ UNCHANGED restOfCli
    /\ UNCHANGED <<DELTA_WIDTH, widthOwner, x_fn, h_fn, scanOf, old,
                   oldOwner, callWidth, scanExit, tauStep, ti, clobbered>>

\* main: x_fn = make_fn(X_EXPR)
MakeX(p) ==
    /\ pc[p] = "make_x"
    /\ LET r == make_fn(X_EXPR[p])
       IN  /\ x_fn' = [x_fn EXCEPT ![p] = r.fn]
           /\ pc' = [pc EXCEPT ![p] = IF r.outcome = "exit" THEN "exited" ELSE "make_h"]
    /\ NoCall
    /\ UNCHANGED restOfCli
    /\ UNCHANGED <<DELTA_WIDTH, widthOwner, X_EXPR, H_EXPR, h_fn, scanOf,
                   old, oldOwner, callWidth, scanExit, tauStep, ti, runs, clobbered>>

\* main: h_fn = make_fn(H_EXPR)
MakeH(p) ==
    /\ pc[p] = "make_h"
    /\ LET r == make_fn(H_EXPR[p])
       IN  /\ h_fn' = [h_fn EXCEPT ![p] = r.fn]
           /\ pc' = [pc EXCEPT ![p] = IF r.outcome = "exit" THEN "exited" ELSE "probe"]
    /\ NoCall
    /\ UNCHANGED restOfCli
    /\ UNCHANGED <<DELTA_WIDTH, widthOwner, X_EXPR, H_EXPR, x_fn, scanOf,
                   old, oldOwner, callWidth, scanExit, tauStep, ti, runs, clobbered>>

\* main: print("[probe] x(t):", x_fn(probe)), then pick_ranges_auto is entered
\* and calls _estimate_support_of(x_fn)
Probe(p) ==
    /\ pc[p] = "probe"
    /\ \E fail \in BOOLEAN :
         LET r == CallFn(TheVal(x_fn[p]), DELTA_WIDTH, fail)
         IN  /\ Called(p, TheVal(x_fn[p]), r, "probe")
             /\ pc' = [pc EXCEPT ![p] = IF r.raised THEN "crashed" ELSE "est_save"]
    /\ scanOf' = [scanOf EXCEPT ![p] = "x"]
    /\ callWidth' = [callWidth EXCEPT ![p] = DELTA_WIDTH]
    /\ UNCHANGED restOfCli
    /\ UNCHANGED <<DELTA_WIDTH, widthOwner, X_EXPR, H_EXPR, x_fn, h_fn,
                   old, oldOwner, scanExit, tauStep, ti, runs, clobbered>>

\* the scan with the restoring write left out
EstRestore_leaky(p) ==
    /\ pc[p] = "est_restore"
    /\ pc' = [pc EXCEPT ![p] = "est_ret"]
    /\ NoCall
    /\ UNCHANGED restOfCli
    /\ UNCHANGED <<DELTA_WIDTH, widthOwner, X_EXPR, H_EXPR, x_fn, h_fn,
                   scanOf, old, oldOwner, callWidth, scanExit, tauStep, ti, runs,
                   clobbered>>

\* _estimate_support_of: old = DELTA_WIDTH
EstSave(p) ==
    /\ pc[p] = "est_save"
    /\ old' = [old EXCEPT ![p] = DELTA_WIDTH]
    /\ oldOwner' = [oldOwner EXCEPT ![p] = widthOwner]
    /\ pc' = [pc EXCEPT ![p] = "est_set"]
    /\ NoCall
    /\ UNCHANGED restOfCli
    /\ UNCHANGED <<DELTA_WIDTH, widthOwner, X_EXPR, H_EXPR, x_fn, h_fn,
                   scanOf, callWidth, scanExit, tauStep, ti, runs, clobbered>>

\* _estimate_support_of: DELTA_WIDTH = temp_delta
EstSet(p) ==
    /\ pc[p] = "est_set"
    /\ DELTA_WIDTH' = Some(temp_delta)
    /\ widthOwner' = [by |-> p, kind |-> "temp"]
    /\ clobbered' = [clobbered EXCEPT ![p] = @ \/ Overwrites(p)]
    /\ pc' = [pc EXCEPT ![p] = "est_eval"]
    /\ NoCall
    /\ UNCHANGED restOfCli
    /\ UNCHANGED <<X_EXPR, H_EXPR, x_fn, h_fn, scanOf, old, oldOwner,
                   callWidth, scanExit, tauStep, ti, runs>>

\* _estimate_support_of: try: vals = np.asarray(fn(grid), dtype=float); the
\* exit the call will take: the function raised, no sample exceeds tol, or
\* an interval
EstEval(p) ==
    /\ pc[p] = "est_eval"
    /\ \E fail \in BOOLEAN, found \in BOOLEAN :
         LET fn == IF scanOf[p] = "x" THEN TheVal(x_fn[p]) ELSE TheVal(h_fn[p])
             r  == CallFn(fn, DELTA_WIDTH, fail)
         IN  /\ Called(p, fn, r, "scan")
             /\ scanExit' = [scanExit EXCEPT ![p] =
                   IF r.raised THEN "raised" ELSE IF found THEN "interval" ELSE "none"]
    /\ pc' = [pc EXCEPT ![p] = "est_restore"]
    /\ UNCHANGED restOfCli
    /\ UNCHANGED <<DELTA_WIDTH, widthOwner, X_EXPR, H_EXPR, x_fn, h_fn,
                   scanOf, old, oldOwner, callWidth, tauStep, ti, runs, clobbered>>

\* _estimate_support_of: finally: DELTA_WIDTH = old
EstRestore(p) ==
    /\ pc[p] = "est_restore"
    /\ DELTA_WIDTH' = old[p]
    /\ widthOwner' = oldOwner[p]
    /\ clobbered' = [clobbered EXCEPT ![p] = @ \/ Overwrites(p)]
    /\ pc' = [pc EXCEPT ![p] = "est_ret"]
    /\ NoCall
    /\ UNCHANGED restOfCli
    /\ UNCHANGED <<X_EXPR, H_EXPR, x_fn, h_fn, scanOf, old, oldOwner,
                   callWidth, scanExit, tauStep, ti, runs>>

\* _estimate_support_of has returned or raised into pick_ranges_auto (its
\* locals are gone): an exception ends main; after sx the scan of h_fn is
\* called; after sh the ranges are picked
EstReturn(p) ==
    /\ pc[p] = "est_ret"
    /\ pc' = [pc EXCEPT ![p] = IF scanExit[p] = "raised" THEN "crashed"
                               ELSE IF scanOf[p] = "x" THEN "est_save" ELSE "ranges"]
    /\ scanOf' = [scanOf EXCEPT ![p] = IF scanExit[p] # "raised" THEN "h" ELSE @]
    /\ callWidth' = [callWidth EXCEPT ![p] =
                       IF scanExit[p] # "raised" /\ scanOf[p] = "x" THEN DELTA_WIDTH ELSE None]
    /\ old' = [old EXCEPT ![p] = None]
    /\ oldOwner' = [oldOwner EXCEPT ![p] = AtImport]
    /\ scanExit' = [scanExit EXCEPT ![p] = "none"]
    /\ NoCall
    /\ UNCHANGED restOfCli
    /\ UNCHANGED <<DELTA_WIDTH, widthOwner, X_EXPR, H_EXPR, x_fn, h_fn,
                   tauStep, ti, runs, clobbered>>

\* main: FPS and the four range prompts (int() or float() of a bad entry
\* raises ValueError), the range check (sys.exit(1)), then the grids
\* t = np.linspace(T_MIN, T_MAX, N_T), tau = np.linspace(TAU_MIN, TAU_MAX, N_TAU)
RangesWith(p, S) ==
    /\ pc[p] = "ranges"
    /\ \E entry \in {"ok", "bad_range", "bad_number"}, s \in S :
         /\ pc' = [pc EXCEPT ![p] = IF entry = "ok" THEN "configure"
                                    ELSE IF entry = "bad_range" THEN "exited"
                                    ELSE "crashed"]
         /\ tauStep' = [tauStep EXCEPT ![p] = IF entry = "ok" THEN s ELSE @]
    /\ NoCall
    /\ UNCHANGED restOfCli
    /\ UNCHANGED <<DELTA_WIDTH, widthOwner, X_EXPR, H_EXPR, x_fn, h_fn,
                   scanOf, old, oldOwner, callWidth, scanExit, ti, runs, clobbered>>

\* main: configure_delta_from_grid(tau)
Configure(p) ==
    /\ pc[p] = "configure"
    /\ DELTA_WIDTH' = configure_delta_from_grid(linspace(0, tauStep[p], 2))
    /\ widthOwner' = [by |-> p, kind |-> "configure"]
    /\ pc' = [pc EXCEPT ![p] = "pre_x"]
    /\ NoCall
    /\ UNCHANGED restOfCli
    /\ UNCHANGED <<X_EXPR, H_EXPR, x_fn, h_fn, scanOf, old, oldOwner,
                   callWidth, scanExit, tauStep, ti, runs, clobbered>>

\* main: X_tau = x_fn(tau)
PreX(p) ==
    /\ pc[p] = "pre_x"
    /\ \E fail \in BOOLEAN :
         LET r == CallFn(TheVal(x_fn[p]), DELTA_WIDTH, fail)
         IN  /\ Called(p, TheVal(x_fn[p]), r, "pre_x")
             /\ pc' = [pc EXCEPT ![p] = IF r.raised THEN "crashed" ELSE "pre_h"]
    /\ UNCHANGED restOfCli
    /\ UNCHANGED <<DELTA_WIDTH, widthOwner, X_EXPR, H_EXPR, x_fn, h_fn,
                   scanOf, old, oldOwner, callWidth, scanExit, tauStep, ti, runs,
                   clobbered>>

\* main: H_tau = h_fn(tau); y = np.zeros_like(t)
PreH(p) ==
    /\ pc[p] = "pre_h"
    /\ \E fail \in BOOLEAN :
         LET r == CallFn(TheVal(h_fn[p]), DELTA_WIDTH, fail)
         IN  /\ Called(p, TheVal(h_fn[p]), r, "pre_h")
             /\ pc' = [pc EXCEPT ![p] = IF r.raised THEN "crashed" ELSE "sweep"]
    /\ ti' = [ti EXCEPT ![p] = 0]
    /\ UNCHANGED restOfCli
    /\ UNCHANGED <<DELTA_WIDTH, widthOwner, X_EXPR, H_EXPR, x_fn, h_fn,
                   scanOf, old, oldOwner, callWidth, scanExit, tauStep, runs,
                   clobbered>>

\* main: for i, ti in enumerate(t): y[i] = np.trapezoid(X_tau * h_fn(ti - tau), tau).
\* No try surrounds the call: an exception leaves main.
Sweep(p) ==
    /\ pc[p] = "sweep"
    /\ \E fail \in BOOLEAN :
         LET r == CallFn(TheVal(h_fn[p]), DELTA_WIDTH, fail)
         IN  /\ Called(p, TheVal(h_fn[p]), r, "sweep")
             /\ pc' = [pc EXCEPT ![p] = IF r.raised THEN "crashed"
                                        ELSE IF ti[p] + 1 = NumT THEN "anim_h"
                                        ELSE "sweep"]
             /\ ti' = [ti EXCEPT ![p] = IF r.raised THEN @
                                        ELSE IF ti[p] + 1 = NumT THEN 0 ELSE @ + 1]
    /\ UNCHANGED restOfCli
    /\ UNCHANGED <<DELTA_WIDTH, widthOwner, X_EXPR, H_EXPR, x_fn, h_fn,
                   scanOf, old, oldOwner, callWidth, scanExit, tauStep, runs,
                   clobbered>>

\* every frame showing the first domain point
anim_idx_first(k) == 0

\* main: idx = np.linspace(0, len(t) - 1, FRAMES).astype(int); idx[k], the
\* (0-based) index in t of frame k's domain point.  linspace's k-th value is
\* k * (len(t) - 1) / (FRAMES - 1), and 0 for a single frame; astype(int)
\* truncates.
anim_idx(k) ==
    IF NumFrames = 1 THEN 0 ELSE (k * (NumT - 1)) \div (NumFrames - 1)

\* np.searchsorted(t, v): the (0-based) index of the first element of the
\* sorted t that is not below v
searchsorted(t, v) == Cardinality({i \in DOMAIN t : t[i] < v})

\* main, update(k): ti = t_anim[k] = t[idx[k]]; j = np.searchsorted(t, ti);
\* dot.set_data([ti], [y[j]]).  The frame's domain index and the index of the
\* y value shown with it.
anim_frame(k, t) ==
    [t |-> anim_idx(k), current_y |-> searchsorted(t, t[anim_idx(k) + 1])]

\* main, update(k) as anim.save renders frame k: line_hA.set_data(tau, h_fn(ti - tau))
AnimH(p) ==
    /\ pc[p] = "anim_h"
    /\ \E fail \in BOOLEAN :
         LET r == CallFn(TheVal(h_fn[p]), DELTA_WIDTH, fail)
         IN  /\ Called(p, TheVal(h_fn[p]), r, "anim")
             /\ pc' = [pc EXCEPT ![p] = IF r.raised THEN "crashed" ELSE "anim_x"]
    /\ UNCHANGED restOfCli
    /\ UNCHANGED <<DELTA_WIDTH, widthOwner, X_EXPR, H_EXPR, x_fn, h_fn,
                   scanOf, old, oldOwner, callWidth, scanExit, tauStep, ti, runs,
                   clobbered>>

\* main, update(k): line_xB.set_data(tau, x_fn(ti - tau)); after the last
\* frame the GIF is saved and main returns
AnimX(p) ==
    /\ pc[p] = "anim_x"
    /\ \E fail \in BOOLEAN :
         LET r == CallFn(TheVal(x_fn[p]), DELTA_WIDTH, fail)
         IN  /\ Called(p, TheVal(x_fn[p]), r, "anim")
             /\ pc' = [pc EXCEPT ![p] = IF r.raised THEN "crashed"
                                        ELSE IF ti[p] + 1 = NumFrames THEN "done"
                                        ELSE "anim_h"]
             /\ ti' = [ti EXCEPT ![p] = IF r.raised THEN @ ELSE @ + 1]
    /\ UNCHANGED restOfCli
    /\ UNCHANGED <<DELTA_WIDTH, widthOwner, X_EXPR, H_EXPR, x_fn, h_fn,
                   scanOf, old, oldOwner, callWidth, scanExit, tauStep, runs,
                   clobbered>>

\* main() is called again in the same interpreter: its locals are new, the
\* module global DELTA_WIDTH is what the earlier run left
Again(p) ==
    /\ pc[p] \in Terminal
    /\ runs[p] < MaxRuns
    /\ pc' = [pc EXCEPT ![p] = "idle"]
    /\ x_fn' = [x_fn EXCEPT ![p] = None]
    /\ h_fn' = [h_fn EXCEPT ![p] = None]
    /\ X_EXPR' = [X_EXPR EXCEPT ![p] = E_step]
    /\ H_EXPR' = [H_EXPR EXCEPT ![p] = E_step]
    /\ scanOf' = [scanOf EXCEPT ![p] = "x"]
    /\ old' = [old EXCEPT ![p] = None]
    /\ oldOwner' = [oldOwner EXCEPT ![p] = AtImport]
    /\ callWidth' = [callWidth EXCEPT ![p] = None]
    /\ scanExit' = [scanExit EXCEPT ![p] = "none"]
    /\ tauStep' = [tauStep EXCEPT ![p] = 1]
    /\ ti' = [ti EXCEPT ![p] = 0]
    /\ failedAt' = [failedAt EXCEPT ![p] = ""]
    /\ UNCHANGED restOfCli
    /\ UNCHANGED <<DELTA_WIDTH, widthOwner, runs, readForeign, clobbered, unsetCall>>

Start(p) == StartWith(p, Exprs)
Ranges(p) == RangesWith(p, GridSteps)

\* the texts entered when two computations run side by side
StartConc(p) == StartWith(p, {E_step, E_impulse})
\* ... on tau grids of different spacings, each other than temp_delta
RangesConc(p) == RangesWith(p, {p + 1})

MainStep(p) ==
    \/ MakeX(p) \/ MakeH(p) \/ Probe(p)
    \/ EstSave(p) \/ EstSet(p) \/ EstEval(p) \/ EstRestore(p) \/ EstReturn(p)
    \/ Configure(p) \/ PreX(p) \/ PreH(p) \/ Sweep(p)
    \/ AnimH(p) \/ AnimX(p)

\* ------------------------------------------- the API's compute_convolution
\* num_frames = 60, the number of points of the continuous domain grid, and
\* num_tau = 200, that of the continuous integration grid
num_frames == 60
num_tau == 200
\* the support scans cover [-20, 20] (lo = -20, hi = 20)
ScanHi == 20
\* the window taken for a signal whose support estimate is None:
\* (-2, 2) continuous, (-5, 5) discrete
DefaultC == 2
DefaultD == 5
\* the padding of the ranges: 2 continuous, 5 discrete
PadC == 2
PadD == 5

Max2(a, b) == IF a >= b THEN a ELSE b
Min2(a, b) == IF a <= b THEN a ELSE b

\* compute_convolution's ranges:
\*   ax, bx = sx if sx else (-2, 2); ah, bh = sh if sh else (-2, 2)
\*   tau_min, tau_max = min(ax, ah) - 2, max(bx, bh) + 2
\*   t_min, t_max = (ax + ah) - 2, (bx + bh) + 2
\* and the same with (-5, 5) and 5 for k_min, k_max, n_min, n_max
api_ranges(dm, sx_, sh_) ==
    LET dfl == IF dm = "continuous" THEN <<-DefaultC, DefaultC>>
                                    ELSE <<-DefaultD, DefaultD>>
        pad == IF dm = "continuous" THEN PadC ELSE PadD
        x   == IF IsNone(sx_) THEN dfl ELSE TheVal(sx_)
        h   == IF IsNone(sh_) THEN dfl ELSE TheVal(sh_)
    IN  [t_min |-> (x[1] + h[1]) - pad, t_max |-> (x[2] + h[2]) + pad,
         tau_min |-> Min2(x[1], h[1]) - pad, tau_max |-> Max2(x[2], h[2]) + pad]

\* The texts a request carries, by what decides compute_convolution's paths:
\*   parses  sympy's parse_expr accepts the text (parse_signal raises
\*           ValueError if not)
\*   raises  calling the lambdified function raises "never", "always" (a
\*           name numpy does not know) or for "some" arguments (2**(-n) on
\*           an integer array holding a positive n: ValueError, integers to
\*           negative integer powers)
\*   scalar  the lambdified function of a constant text returns a scalar,
\*           not an array
A_step == [text |-> "u(t)",    parses |-> TRUE,  raises |-> "never",  scalar |-> FALSE]
A_pow  == [text |-> "2**(-n)", parses |-> TRUE,  raises |-> "some",   scalar |-> FALSE]
A_foo  == [text |-> "foo(t)",  parses |-> TRUE,  raises |-> "always", scalar |-> FALSE]
A_open == [text |-> "u(t",     parses |-> FALSE, raises |-> "never",  scalar |-> FALSE]
A_one  == [text |-> "1",       parses |-> TRUE,  raises |-> "never",  scalar |-> TRUE]
ApiExprs == {A_step, A_pow, A_foo, A_open, A_one}

\* a scan over a window twice as wide
Supports_wide ==
    {v \in {-2 * ScanHi, 0, 2 * ScanHi} \X {-2 * ScanHi, 0, 2 * ScanHi} : v[1] <= v[2]}

\* the intervals a support scan can return: grid[idx[0]], grid[idx[-1]] of a
\* grid over [-20, 20]; its two ends and its middle are kept
Supports ==
    {v \in {-ScanHi, 0, ScanHi} \X {-ScanHi, 0, ScanHi} : v[1] <= v[2]}

apiVars == <<apiPc, domain, x_str, h_str, sx, sh, t_vals, y_vals, frames,
             apiResult, apiStatus, apiFailedAt>>
restOfApi == <<program, cliVars, primVars>>

InitApi ==
    /\ apiPc = "idle"
    /\ domain = "continuous"
    /\ x_str = A_step
    /\ h_str = A_step
    /\ sx = None
    /\ sh = None
    /\ t_vals = 0
    /\ y_vals = 0
    /\ frames = <<>>
    /\ apiResult = ""
    /\ apiStatus = 0
    /\ apiFailedAt = ""

\* parse_signal(expr_str, domain): the parsed expression, or ValueError
parse_signal(e) == IF e.parses THEN "expr" ELSE "ValueError"

\* whether a call of the lambdified function raises, fail telling whether its
\* argument is one it fails on
ApiRaises(e, fail) == e.raises = "always" \/ (e.raises = "some" /\ fail)

\* the last statement of compute_convolution's try is reached only by
\* return; except Exception: print, return None
ReturnNone(where) ==
    /\ apiResult' = "None"
    /\ apiFailedAt' = where
    /\ apiPc' = "respond"

\* get_convolution: a /convolution request arrives
Request ==
    /\ program = "api"
    /\ apiPc = "idle"
    /\ \E dm \in {"continuous", "discrete"}, ex \in ApiExprs, eh \in ApiExprs :
         /\ domain' = dm
         /\ x_str' = ex
         /\ h_str' = eh
    /\ apiPc' = "parse"
    /\ UNCHANGED restOfApi
    /\ UNCHANGED <<sx, sh, t_vals, y_vals, frames, apiResult, apiStatus, apiFailedAt>>

\* compute_convolution: x_expr = parse_signal(x_str, ..), h_expr =
\* parse_signal(h_str, ..), then the two lambdify calls
Parse ==
    /\ apiPc = "parse"
    /\ IF parse_signal(x_str) = "ValueError" \/ parse_signal(h_str) = "ValueError"
       THEN ReturnNone("parse")
       ELSE /\ apiPc' = "support"
            /\ UNCHANGED <<apiResult, apiFailedAt>>
    /\ UNCHANGED restOfApi
    /\ UNCHANGED <<domain, x_str, h_str, sx, sh, t_vals, y_vals, frames, apiStatus>>

\* estimate_support / estimate_support_discrete: an exception of the scanned
\* function is swallowed and None returned; else None or an interval
Estimate(e, fail, found) == IF ApiRaises(e, fail) THEN None ELSE found

\* compute_convolution: sx, sh, the padded ranges and the grids.  The number
\* of domain points is num_frames (np.linspace(t_min, t_max, num_frames)) or
\* that of np.arange(n_min, n_max + 1).
Support ==
    /\ apiPc = "support"
    /\ \E fx \in BOOLEAN, fh \in BOOLEAN,
          gx \in {None} \cup {Some(v) : v \in Supports},
          gh \in {None} \cup {Some(v) : v \in Supports} :
         LET ex  == Estimate(x_str, fx, gx)
             eh  == Estimate(h_str, fh, gh)
             r   == api_ranges(domain, ex, eh)
         IN  /\ sx' = ex
             /\ sh' = eh
             /\ t_vals' = IF domain = "continuous" THEN num_frames
                                                  ELSE r.t_max + 1 - r.t_min
    /\ apiPc' = "pre_x"
    /\ UNCHANGED restOfApi
    /\ UNCHANGED <<domain, x_str, h_str, y_vals, frames, apiResult, apiStatus,
                   apiFailedAt>>

\* compute_convolution: X_tau = x_fn(tau_vals); y_vals = []; frames = []
ApiPreX ==
    /\ apiPc = "pre_x"
    /\ \E fail \in BOOLEAN :
         IF ApiRaises(x_str, fail)
         THEN ReturnNone("pre_x")
         ELSE /\ apiPc' = "loop"
              /\ UNCHANGED <<apiResult, apiFailedAt>>
    /\ UNCHANGED restOfApi
    /\ UNCHANGED <<domain, x_str, h_str, sx, sh, t_vals, y_vals, frames, apiStatus>>

\* the number of points of the integration grid: num_tau, or that of
\* np.arange(k_min, k_max + 1)
tau_len(dm, sx_, sh_) ==
    IF dm = "continuous" THEN num_tau
    ELSE api_ranges(dm, sx_, sh_).tau_max + 1 - api_ranges(dm, sx_, sh_).tau_min

\* the number of samples of H_shifted: h_fn(ti - tau_vals) has one per point of
\* tau_vals; if np.isscalar(H_shifted): H_shifted = np.full_like(tau_vals, H_shifted)
h_shifted_len(e, ntau) ==
    LET returned == IF e.scalar THEN 0 ELSE ntau
    IN  IF e.scalar THEN ntau ELSE returned

\* the loop leaving one domain point before the end
Loop_short ==
    /\ apiPc = "loop"
    /\ \E fail \in BOOLEAN :
         IF ApiRaises(h_str, fail)
         THEN /\ ReturnNone("loop")
              /\ UNCHANGED <<y_vals, frames>>
         ELSE /\ y_vals' = y_vals + 1
              /\ frames' = Append(frames,
                     [t |-> y_vals + 1,
                      h_shifted |-> h_shifted_len(h_str, tau_len(domain, sx, sh)),
                      current_y |-> y_vals + 1])
              /\ apiPc' = IF y_vals + 2 = t_vals THEN "respond" ELSE "loop"
              /\ apiResult' = IF y_vals + 2 = t_vals THEN "dict" ELSE apiResult
              /\ UNCHANGED apiFailedAt
    /\ UNCHANGED restOfApi
    /\ UNCHANGED <<domain, x_str, h_str, sx, sh, t_vals, apiStatus>>

\* compute_convolution: for ti in t_vals: H_shifted = h_fn(ti - tau_vals);
\* val = ...; y_vals.append(val); frames.append({"t": float(ti), "h_shifted":
\* ..., "current_y": float(val)}); after the last point the dict is returned.
\* The iteration that handles the i-th domain point is the one that appends
\* the i-th y value.  A frame keeps the index of its domain point as t, the
\* number of its samples as h_shifted, and as current_y the index of the y
\* value it was given.  The loop has no try of its own: an exception goes to
\* the function's except and None is returned.
Loop ==
    /\ apiPc = "loop"
    /\ \E fail \in BOOLEAN :
         IF ApiRaises(h_str, fail)
         THEN /\ ReturnNone("loop")
              /\ UNCHANGED <<y_vals, frames>>
         ELSE /\ y_vals' = y_vals + 1
              /\ frames' = Append(frames,
                     [t |-> y_vals + 1,
                      h_shifted |-> h_shifted_len(h_str, tau_len(domain, sx, sh)),
                      current_y |-> y_vals + 1])
              /\ apiPc' = IF y_vals + 1 = t_vals THEN "respond" ELSE "loop"
              /\ apiResult' = IF y_vals + 1 = t_vals THEN "dict" ELSE apiResult
              /\ UNCHANGED apiFailedAt
    /\ UNCHANGED restOfApi
    /\ UNCHANGED <<domain, x_str, h_str, sx, sh, t_vals, apiStatus>>

\* get_convolution: if not data: raise HTTPException(400); return data
Respond ==
    /\ apiPc = "respond"
    /\ apiStatus' = IF apiResult = "None" THEN 400 ELSE 200
    /\ apiPc' = "answered"
    /\ UNCHANGED restOfApi
    /\ UNCHANGED <<domain, x_str, h_str, sx, sh, t_vals, y_vals, frames, apiResult,
                   apiFailedAt>>

ApiStep == Request \/ Parse \/ Support \/ ApiPreX \/ Loop \/ Respond

\* ------------------------------------------- the primitives on their own
restOfPrim == <<program, cliVars, apiPc, domain, x_str, h_str, sx, sh, t_vals, y_vals,
                frames, apiResult, apiStatus, apiFailedAt>>

InitPrim ==
    /\ primFn = ""
    /\ primArg = PyFloat(0)
    /\ primRes = PyFloat(0)

Samples == (-MaxT)..MaxT
Arrays == UNION {[1..n -> Samples] : n \in 1..MaxLen}
PrimArgs == {PyFloat(v) : v \in Samples} \cup {NdArray(vs) : vs \in Arrays}
Widths == {None} \cup {Some(w) : w \in GridSteps}

\* u applied to a scalar or to an array
CallU ==
    \E t \in PrimArgs :
        /\ primFn = ""
        /\ UNCHANGED restOfPrim
        /\ primFn' = "u"
        /\ primArg' = t
        /\ primRes' = u(t)

\* d applied to a scalar or to an array, with or without an explicit width,
\* with or without a configured DELTA_WIDTH
CallD ==
    \E t \in PrimArgs, width \in Widths, ambient \in Widths :
        /\ primFn = ""
        /\ UNCHANGED restOfPrim
        /\ primFn' = "d"
        /\ primArg' = [t |-> t, width |-> width, ambient |-> ambient]
        /\ primRes' = d(t, width, ambient)

\* The pulse lies inside the grid: its whole support [c - w/2, c + w/2] is
\* strictly between the first and the last grid point.
Interior(c, tau, w) ==
    /\ 2 * (c - tau[1]) > w
    /\ 2 * (tau[Len(tau)] - c) > w

\* main's integral for a unit x and h = d at the domain point c:
\* tau = np.linspace(...); configure_delta_from_grid(tau);
\* np.trapezoid(X_tau * h_fn(c - tau), tau)
ImpulseArea(lo, step, c) ==
    LET tau  == linspace(lo, step, MaxGrid)
        w    == configure_delta_from_grid(tau)
        vals == d(NdArray([k \in 1..MaxGrid |-> c - tau[k]]), None, w)
    IN  trapezoid(vals.num, vals.den, tau)

CallArea ==
    \E lo \in Samples, step \in GridSteps, c \in (-MaxT)..(MaxT + MaxGrid * MaxStep) :
        /\ primFn = ""
        /\ Interior(c, linspace(lo, step, MaxGrid), step)
        /\ UNCHANGED restOfPrim
        /\ primFn' = "area"
        /\ primArg' = [lo |-> lo, step |-> step, c |-> c]
        /\ primRes' = ImpulseArea(lo, step, c)

\* ----------------------------------------- support scan and range planning
\* number of points of the scan grid (N = 4000 in the source)
ScanN == 3
\* largest |value| of a scanned sample, in units of tol
MaxVal == 2
\* largest |endpoint| of a support estimate handed to the planners
MaxEnd == 3

\* tol = 1e-6, the scan's magnitude threshold: the unit of scanned values
tol == 1
\* lengths the planner returns are kept in hundredths: 1.0 is Scale
Scale == 100
\* _expand's frac = 0.12 and min_pad = 0.5, in hundredths
frac == 12
min_pad == 50

\* np.where(np.abs(vals) > tol)[0] for a 1-d vals: the indices, ascending
\* (Python's index k is k + 1 here)
where_exceeds(data) == {k \in DOMAIN data : Abs(data[k]) > tol}

\* _estimate_support_of after the scanned function has returned vals:
\*   idx = np.where(np.abs(vals) > tol)[0]
\*   if idx.size == 0: return None
\*   return float(grid[int(idx[0])]), float(grid[int(idx[-1])])
\* fn(grid) is an array with one sample per grid point, or, for a constant
\* text such as "1", a scalar that np.asarray makes 0-d.  np.where of a 0-d
\* condition depends on the numpy installed: it raises ValueError (nonzero
\* on 0d arrays is not allowed), or it treats the condition as the one-element
\* array [cond] (nonzero0d = "atleast_1d").
scan_result(vals, grid, nonzero0d) ==
    IF vals.shape = "0d" /\ nonzero0d = "raises"
    THEN [kind |-> "raised", lo |-> 0, hi |-> 0]
    ELSE LET idx == where_exceeds(vals.data)
         IN  IF idx = {}
             THEN [kind |-> "None", lo |-> 0, hi |-> 0]
             ELSE [kind |-> "interval",
                   lo |-> grid[SetMin(idx)],
                   hi |-> grid[CHOOSE m \in idx : \A x \in idx : x <= m]]

\* _expand without the absolute minimum pad
expand_rel(a, b) ==
    LET pad == frac * (b - a)
    IN  <<Scale * a - pad, Scale * b + pad>>

\* _expand without the relative margin
expand_abs(a, b) == <<Scale * a - min_pad, Scale * b + min_pad>>

\* _expand(a, b, frac=0.12, min_pad=0.5): span = max(1e-9, b - a);
\* pad = max(min_pad, frac * span); return a - pad, b + pad.  a and b are
\* whole numbers, the result is in hundredths.  A span of 1e-9 (b - a <= 0)
\* gives frac * span = 1.2e-10, below min_pad.
expand(a, b) ==
    LET pad == IF b - a <= 0 THEN min_pad ELSE Max2(min_pad, frac * (b - a))
    IN  <<Scale * a - pad, Scale * b + pad>>

\* pick_ranges_auto that plans from (0, 0) when nothing was found
pick_ranges_auto_nofallback(sx_, sh_) ==
    LET x   == IF IsNone(sx_) THEN <<0, 0>> ELSE TheVal(sx_)
        h   == IF IsNone(sh_) THEN <<0, 0>> ELSE TheVal(sh_)
        tau == expand(Min2(x[1], h[1]), Max2(x[2], h[2]))
        tt  == expand(x[1] + h[1], x[2] + h[2])
    IN  [t_min |-> tt[1], t_max |-> tt[2], tau_min |-> tau[1], tau_max |-> tau[2]]

\* pick_ranges_auto that takes the window (-2, 2) for a support that was
\* not found
pick_ranges_auto_window(sx_, sh_) ==
    IF IsNone(sx_) /\ IsNone(sh_)
    THEN [t_min |-> -2 * Scale, t_max |-> 6 * Scale,
          tau_min |-> -2 * Scale, tau_max |-> 6 * Scale]
    ELSE LET x   == IF IsNone(sx_) THEN <<-2, 2>> ELSE TheVal(sx_)
             h   == IF IsNone(sh_) THEN <<-2, 2>> ELSE TheVal(sh_)
             tau == expand(Min2(x[1], h[1]), Max2(x[2], h[2]))
             tt  == expand(x[1] + h[1], x[2] + h[2])
         IN  [t_min |-> tt[1], t_max |-> tt[2],
              tau_min |-> tau[1], tau_max |-> tau[2]]

\* pick_ranges_auto once sx and sh are known:
\*   if sx is None and sh is None: return -2.0, 6.0, -2.0, 6.0
\*   ax, bx = (0.0, 0.0) if sx is None else sx; likewise ah, bh
\*   tau_min, tau_max = _expand(min(ax, ah), max(bx, bh))
\*   t_min, t_max = _expand(ax + ah, bx + bh)
pick_ranges_auto(sx_, sh_) ==
    IF IsNone(sx_) /\ IsNone(sh_)
    THEN [t_min |-> -2 * Scale, t_max |-> 6 * Scale,
          tau_min |-> -2 * Scale, tau_max |-> 6 * Scale]
    ELSE LET x   == IF IsNone(sx_) THEN <<0, 0>> ELSE TheVal(sx_)
             h   == IF IsNone(sh_) THEN <<0, 0>> ELSE TheVal(sh_)
             tau == expand(Min2(x[1], h[1]), Max2(x[2], h[2]))
             tt  == expand(x[1] + h[1], x[2] + h[2])
         IN  [t_min |-> tt[1], t_max |-> tt[2],
              tau_min |-> tau[1], tau_max |-> tau[2]]

\* the values a scanned function can return: one sample per grid point, or
\* a scalar
ScanVals == {[shape |-> "1d", data |-> vs] : vs \in [1..ScanN -> (-MaxVal)..MaxVal]}
              \cup {[shape |-> "0d", data |-> <<v>>] : v \in (-MaxVal)..MaxVal}

\* the support estimates: None, or (lo, hi) with lo <= hi
Estimates == {None} \cup {Some(iv) : iv \in {v \in ((-MaxEnd)..MaxEnd) \X ((-MaxEnd)..MaxEnd) :
                                                 v[1] <= v[2]}}

\* the scan's thresholding applied to what the scanned function returned
CallScan ==
    \E vals \in ScanVals, lo \in {-MaxEnd, 0}, step \in GridSteps,
       nonzero0d \in {"raises", "atleast_1d"} :
        /\ primFn = ""
        /\ UNCHANGED restOfPrim
        /\ primFn' = "scan"
        /\ primArg' = [vals |-> vals, grid |-> linspace(lo, step, ScanN)]
        /\ primRes' = scan_result(vals, linspace(lo, step, ScanN), nonzero0d)

\* pick_ranges_auto's planning applied to a pair of estimates
CallPickRanges ==
    \E ex \in Estimates, eh \in Estimates :
        /\ primFn = ""
        /\ UNCHANGED restOfPrim
        /\ primFn' = "pick_ranges_auto"
        /\ primArg' = [sx |-> ex, sh |-> eh]
        /\ primRes' = pick_ranges_auto(ex, eh)

\* compute_convolution's planning applied to a pair of estimates
CallApiRanges ==
    \E dm \in {"continuous", "discrete"}, ex \in Estimates, eh \in Estimates :
        /\ primFn = ""
        /\ UNCHANGED restOfPrim
        /\ primFn' = "api_ranges"
        /\ primArg' = [domain |-> dm, sx |-> ex, sh |-> eh]
        /\ primRes' = api_ranges(dm, ex, eh)

\* ------------------------------------------- preprocess_expr on the text
\* A text is the sequence of its characters, each a one-character string.
\* longest text handed to preprocess_expr
MaxText == 3
\* the characters the texts are written with
Alphabet == {"t", "2", "(", ")", "+", "-", " ", "u", "n", "p", ".", "^"}
Texts == UNION {[1..k -> Alphabet] : k \in 0..MaxText}

\* the classes of Python's re: \d, [A-Za-z], \w = [A-Za-z0-9_], \s
DigitChars == {"0", "1", "2", "3", "4", "5", "6", "7", "8", "9"}
LetterChars == {"a", "b", "c", "d", "e", "f", "g", "h", "i", "j", "k", "l", "m",
                "n", "o", "p", "q", "r", "s", "t", "u", "v", "w", "x", "y", "z",
                "A", "B", "C", "D", "E", "F", "G", "H", "I", "J", "K", "L", "M",
                "N", "O", "P", "Q", "R", "S", "T", "U", "V", "W", "X", "Y", "Z"}
WordChars == LetterChars \cup DigitChars \cup {"_"}
SpaceChars == {" ", "\t", "\n", "\r", "\f"}

\* the first index at or after i whose character is outside C (Len(s) + 1
\* if there is none): where a greedy C* begun at i ends
SpanEnd(s, i, C) ==
    LET stops == {j \in i..Len(s) : s[j] \notin C}
    IN  IF stops = {} THEN Len(s) + 1 ELSE SetMin(stops)

\* \b between s[i-1] and s[i]: exactly one of the two is a word character
IsWordAt(s, i) == i \in 1..Len(s) /\ s[i] \in WordChars
WordBoundary(s, i) == IsWordAt(s, i - 1) # IsWordAt(s, i)

\* \d+(?:\.\d+)? matched greedily at i: the index after it, 0 if no digit
NumberEnd(s, i) ==
    LET e == SpanEnd(s, i, DigitChars)
    IN  IF e = i THEN 0
        ELSE IF e <= Len(s) /\ s[e] = "." /\ SpanEnd(s, e + 1, DigitChars) > e + 1
        THEN SpanEnd(s, e + 1, DigitChars)
        ELSE e

\* whether sub occurs in s (Python's  sub in s)
Contains(s, sub) ==
    \E i \in 1..(Len(s) + 1 - Len(sub)) : SubSeq(s, i, i + Len(sub) - 1) = sub

\* s.strip()
strip(s) ==
    LET keep == {j \in 1..Len(s) : s[j] \notin SpaceChars}
    IN  IF keep = {} THEN <<>>
        ELSE SubSeq(s, SetMin(keep), CHOOSE m \in keep : \A x \in keep : x <= m)

\* s.replace("^", "**")
RECURSIVE replace_caret(_)
replace_caret(s) ==
    IF s = <<>> THEN <<>>
    ELSE (IF Head(s) = "^" THEN <<"*", "*">> ELSE <<Head(s)>>) \o replace_caret(Tail(s))

\* re.sub(r'(?<![A-Za-z0-9_\.])([+-]?\d+(?:\.\d+)?)(\s*)t\b', r'\1*\2t', s)
\* from index i on.  A match at i: num is the index after the number, sp the
\* index of the t.
SignedNumberT(s, i) ==
    LET j   == IF s[i] \in {"+", "-"} THEN i + 1 ELSE i
        num == IF j <= Len(s) THEN NumberEnd(s, j) ELSE 0
        sp  == IF num = 0 THEN 0 ELSE SpanEnd(s, num, SpaceChars)
    IN  [ok  |-> /\ (i = 1 \/ s[i - 1] \notin WordChars \cup {"."})
                 /\ num # 0
                 /\ sp <= Len(s)
                 /\ s[sp] = "t"
                 /\ WordBoundary(s, sp + 1),
         num |-> num, sp |-> sp]

RECURSIVE sub_number_t(_, _)
sub_number_t(s, i) ==
    IF i > Len(s) THEN <<>>
    ELSE LET m == SignedNumberT(s, i)
         IN  IF m.ok
             THEN SubSeq(s, i, m.num - 1) \o <<"*">> \o SubSeq(s, m.num, m.sp - 1)
                    \o <<"t">> \o sub_number_t(s, m.sp + 1)
             ELSE <<s[i]>> \o sub_number_t(s, i + 1)

\* re.sub(r'\)(\s*)t\b', r')*\1t', s) from index i on
ParenT(s, i) ==
    LET sp == SpanEnd(s, i + 1, SpaceChars)
    IN  s[i] = ")" /\ sp <= Len(s) /\ s[sp] = "t" /\ WordBoundary(s, sp + 1)

RECURSIVE sub_paren_t(_, _)
sub_paren_t(s, i) ==
    IF i > Len(s) THEN <<>>
    ELSE LET sp == SpanEnd(s, i + 1, SpaceChars)
         IN  IF ParenT(s, i)
             THEN <<")", "*">> \o SubSeq(s, i + 1, sp - 1) \o <<"t">>
                    \o sub_paren_t(s, sp + 1)
             ELSE <<s[i]>> \o sub_paren_t(s, i + 1)

\* re.sub(r'\bt(\s*)\(', r't*\1(', s) from index i on
TParen(s, i) ==
    LET sp == SpanEnd(s, i + 1, SpaceChars)
    IN  s[i] = "t" /\ WordBoundary(s, i) /\ sp <= Len(s) /\ s[sp] = "("

RECURSIVE sub_t_paren(_, _)
sub_t_paren(s, i) ==
    IF i > Len(s) THEN <<>>
    ELSE LET sp == SpanEnd(s, i + 1, SpaceChars)
         IN  IF TParen(s, i)
             THEN <<"t", "*">> \o SubSeq(s, i + 1, sp - 1) \o <<"(">>
                    \o sub_t_paren(s, sp + 1)
             ELSE <<s[i]>> \o sub_t_paren(s, i + 1)

\* re.sub(r'\bt(\s*)(\d+(?:\.\d+)?)\b', r't*\1\2', s) from index i on.  The
\* number is matched greedily; when no \b follows it the engine backtracks:
\* giving up the fraction leaves the digits before the '.', after which a \b
\* always holds; giving up digits never yields one.
TNumber(s, i) ==
    LET sp   == SpanEnd(s, i + 1, SpaceChars)
        ds   == IF sp <= Len(s) THEN SpanEnd(s, sp, DigitChars) ELSE sp
        full == IF sp <= Len(s) THEN NumberEnd(s, sp) ELSE 0
        end  == IF full = 0 THEN 0
                ELSE IF WordBoundary(s, full) THEN full
                ELSE IF full > ds THEN ds
                ELSE 0
    IN  [ok |-> s[i] = "t" /\ WordBoundary(s, i) /\ end # 0, sp |-> sp, end |-> end]

RECURSIVE sub_t_number(_, _)
sub_t_number(s, i) ==
    IF i > Len(s) THEN <<>>
    ELSE LET m == TNumber(s, i)
         IN  IF m.ok
             THEN <<"t", "*">> \o SubSeq(s, i + 1, m.end - 1) \o sub_t_number(s, m.end)
             ELSE <<s[i]>> \o sub_t_number(s, i + 1)

\* func_names = r'(?:u|d|exp|sin|cos|tan|arctan|log|sqrt|abs|sign|pi)'
func_names == {<<"u">>, <<"d">>, <<"e", "x", "p">>, <<"s", "i", "n">>,
               <<"c", "o", "s">>, <<"t", "a", "n">>,
               <<"a", "r", "c", "t", "a", "n">>, <<"l", "o", "g">>,
               <<"s", "q", "r", "t">>, <<"a", "b", "s">>,
               <<"s", "i", "g", "n">>, <<"p", "i">>}

\* (?={func_names}\b) at index i
FuncNameAt(s, i) ==
    \E nm \in func_names :
        /\ i + Len(nm) - 1 <= Len(s)
        /\ SubSeq(s, i, i + Len(nm) - 1) = nm
        /\ WordBoundary(s, i + Len(nm))

\* re.sub(rf'(?<=[0-9\)])\s*(?={func_names}\b)', '*', s) from index i on: the
\* match is the (possibly empty) run of whitespace between the digit or ')'
\* and the name
BeforeFunc(s, i) ==
    i > 1 /\ s[i - 1] \in DigitChars \cup {")"} /\ FuncNameAt(s, SpanEnd(s, i, SpaceChars))

RECURSIVE sub_func(_, _)
sub_func(s, i) ==
    IF i > Len(s) THEN <<>>
    ELSE LET sp == SpanEnd(s, i, SpaceChars)
         IN  IF BeforeFunc(s, i)
             THEN <<"*", s[sp]>> \o sub_func(s, sp + 1)
             ELSE <<s[i]>> \o sub_func(s, i + 1)

\* re.sub(r'\)\s*\(', ')*(', s) from index i on
ParenParen(s, i) ==
    LET sp == SpanEnd(s, i + 1, SpaceChars)
    IN  s[i] = ")" /\ sp <= Len(s) /\ s[sp] = "("

RECURSIVE sub_paren_paren(_, _)
sub_paren_paren(s, i) ==
    IF i > Len(s) THEN <<>>
    ELSE LET sp == SpanEnd(s, i + 1, SpaceChars)
         IN  IF ParenParen(s, i)
             THEN <<")", "*", "(">> \o sub_paren_paren(s, sp + 1)
             ELSE <<s[i]>> \o sub_paren_paren(s, i + 1)

\* the six substitutions of preprocess_expr, in its order
rewrite(s0) ==
    LET s1 == sub_number_t(s0, 1)
        s2 == sub_paren_t(s1, 1)
        s3 == sub_t_paren(s2, 1)
        s4 == sub_t_number(s3, 1)
        s5 == sub_func(s4, 1)
    IN  sub_paren_paren(s5, 1)

\* preprocess_expr(expr): ValueError if "np." occurs in expr; else strip,
\* '^' -> '**', and the six substitutions
preprocess_expr(expr) ==
    IF Contains(expr, <<"n", "p", ".">>)
    THEN [raised |-> TRUE, s |-> <<>>]
    ELSE [raised |-> FALSE, s |-> rewrite(replace_caret(strip(expr)))]

\* preprocess_expr applied to a text
CallPreprocess ==
    \E expr \in Texts :
        /\ primFn = ""
        /\ UNCHANGED restOfPrim
        /\ primFn' = "preprocess"
        /\ primArg' = expr
        /\ primRes' = preprocess_expr(expr)

\* ------------------------------- the API's discrete convolution of sequences
\* np.arange(a, b): the integers a, a + 1, ..., b - 1
arange(a, b) == [i \in 1..Max2(b - a, 0) |-> a + (i - 1)]

\* an integer sequence as the callable handed to the code: data[1..] placed
\* from index off on, zero everywhere else
SeqLen == 3
SeqOffsets == {-ScanHi, 0, ScanHi - SeqLen + 1}
\* the signals x: samples in {-1, 0, 1}, placed at the left end of the scanned
\* window or at 0; the kernels h: samples in {0, 1}, placed at 0 or at the
\* right end
SignalFns == [off : {o \in SeqOffsets : o <= 0}, data : [1..SeqLen -> {-1, 0, 1}]]
KernelFns == [off : {o \in SeqOffsets : o >= 0}, data : [1..SeqLen -> {0, 1}]]
at(fn, k) ==
    IF k >= fn.off /\ k < fn.off + Len(fn.data) THEN fn.data[k - fn.off + 1] ELSE 0

\* estimate_support_discrete(fn, lo=-20, hi=20): the first and the last grid
\* point whose sample exceeds 1e-3 in modulus (an integer sample does so iff
\* it is not 0), None when there is none
estimate_support_discrete(fn) ==
    LET grid == arange(-ScanHi, ScanHi + 1)
        idx  == {i \in DOMAIN grid : Abs(at(fn, grid[i])) > 0}
    IN  IF idx = {} THEN None
        ELSE Some(<<grid[SetMin(idx)], grid[CHOOSE m \in idx : \A j \in idx : j <= m]>>)

\* a summation grid that starts at index 0
k_grid_nonneg(r) == arange(0, r.tau_max + 1)
\* the grid of the summation index: np.arange(k_min, k_max + 1)
k_grid(r) == arange(r.tau_min, r.tau_max + 1)
\* an output grid that stops one short
n_grid_open(r) == arange(r.t_min, r.t_max)
\* the grid of the output index: np.arange(n_min, n_max + 1)
n_grid(r) == arange(r.t_min, r.t_max + 1)

\* the discrete branch of compute_convolution on two sequences: supports,
\* ranges, grids, X_k = x_fn(k_vals), and for each ni of n_vals
\* val = np.sum(X_k * h_fn(ni - k_vals))
discrete_convolution(xf, hf) ==
    LET ex     == estimate_support_discrete(xf)
        eh     == estimate_support_discrete(hf)
        r      == api_ranges("discrete", ex, eh)
        n_vals == n_grid(r)
        k_vals == k_grid(r)
        X_k    == [i \in DOMAIN k_vals |-> at(xf, k_vals[i])]
        val(ni) ==
            LET H_shifted == [i \in DOMAIN k_vals |-> at(hf, ni - k_vals[i])]
            IN  SumTo([i \in DOMAIN k_vals |-> X_k[i] * H_shifted[i]], Len(k_vals))
    IN  [sx |-> ex, sh |-> eh, t |-> n_vals, tau |-> k_vals, x_tau |-> X_k,
         y |-> [j \in DOMAIN n_vals |-> val(n_vals[j])]]

\* compute_convolution(x, h, 'discrete') on two integer sequences
CallDiscrete ==
    \E xf \in SignalFns, hf \in KernelFns :
        /\ primFn = ""
        /\ UNCHANGED restOfPrim
        /\ primFn' = "discrete_convolution"
        /\ primArg' = [x |-> xf, h |-> hf]
        /\ primRes' = discrete_convolution(xf, hf)

\* ------------------------------------------------ the API's detect_period_dt
\* the signals handed to detect_period_dt: x[n] = base + slope * n + (n mod P),
\* with whole-number samples; max_N from 2 up to MaxN
MaxPeriod == 3
MaxN == 9
BigBase == 200000
PeriodSignals == [base : {0, BigBase}, slope : {0, 1}, P : 1..MaxPeriod]
x_func(sig, n_) == (sig.base + (sig.slope * n_)) + (n_ % sig.P)

\* np.isclose(a, b, atol=1e-6), rtol left at numpy's default 1e-5:
\* |a - b| <= atol + rtol * |b|, here times 10^6
isclose(a, b) == 1000000 * Abs(a - b) <= 1 + (10 * Abs(b))

\* detect_period_dt(signal_eq, max_N): x_vals = x_func(np.arange(0, max_N));
\* the first N_test of range(1, max_N // 2) for which x_vals[i] is close to
\* x_vals[i + N_test] for every i of range(max_N - N_test); None if there is
\* none
detect_period_dt(sig, max_N) ==
    LET x_vals(i) == x_func(sig, i)
        periodic  == {N_test \in 1..((max_N \div 2) - 1) :
                         \A i \in 0..((max_N - N_test) - 1) :
                             isclose(x_vals(i), x_vals(i + N_test))}
    IN  IF periodic = {} THEN None ELSE Some(SetMin(periodic))

\* detect_period_dt applied to a signal
CallDetectPeriod ==
    \E sig \in PeriodSignals, max_N \in 2..MaxN :
        /\ primFn = ""
        /\ UNCHANGED restOfPrim
        /\ primFn' = "detect_period_dt"
        /\ primArg' = [signal |-> sig, max_N |-> max_N]
        /\ primRes' = detect_period_dt(sig, max_N)

\* ------------------------------------- the API's calculate_roc_surface
\* complex numbers <<re, im>> with whole-number parts
csub(a, b) == <<a[1] - b[1], a[2] - b[2]>>
cmul(a, b) == <<(a[1] * b[1]) - (a[2] * b[2]), (a[1] * b[2]) + (a[2] * b[1])>>
norm2(a) == (a[1] * a[1]) + (a[2] * a[2])
SetMax(S) == CHOOSE m \in S : \A x \in S : x <= m

\* the default of the parameter points
points_default == 50
\* MAX_HEIGHT = 10.0
MAX_HEIGHT == 10

\* numerator = prod(S - z for z in zeros), denominator likewise over poles
RECURSIVE root_product(_, _)
root_product(S, roots) ==
    IF roots = <<>> THEN <<1, 0>>
    ELSE cmul(csub(S, Head(roots)), root_product(S, Tail(roots)))

\* np.exp(1j * Y) for Y = q quarter turns (q * pi / 2)
unit(q) ==
    LET r == q % 4
    IN  IF r = 0 THEN <<1, 0>> ELSE IF r = 1 THEN <<0, 1>>
        ELSE IF r = 2 THEN <<-1, 0>> ELSE <<0, -1>>

\* the cells of the surface: a magnitude |H|, kept as the fraction n / d of
\* its square (eps: the denominator of H was epsilon = 1e-10 alone, d does
\* not count and |H| = sqrt(n) * 1e10); nan; None
Float(n_, d_, e_) == [kind |-> "float", n |-> n_, d |-> d_, eps |-> e_]
NaN == [kind |-> "nan", n |-> 0, d |-> 1, eps |-> FALSE]
NoneCell == [kind |-> "None", n |-> 0, d |-> 1, eps |-> FALSE]

\* H_mag = np.abs(gain * numerator / (denominator + epsilon)): with whole
\* parts the denominator is 0 or at least 1 in modulus, and epsilon counts
\* only when it is 0
H_mag(S, poles, zeros, gain) ==
    LET numerator   == root_product(S, zeros)
        denominator == root_product(S, poles)
    IN  Float((gain * gain) * norm2(numerator), norm2(denominator),
              denominator = <<0, 0>>)

\* h > MAX_HEIGHT
above_max(h) ==
    IF h.eps THEN h.n > 0
    ELSE h.n > 0 /\ (h.n - 1) \div (MAX_HEIGHT * MAX_HEIGHT) >= h.d
\* np.minimum(H_mag, MAX_HEIGHT)
minimum(h) ==
    IF h.kind = "nan" THEN h
    ELSE IF above_max(h) THEN Float(MAX_HEIGHT * MAX_HEIGHT, 1, FALSE) ELSE h

\* a comparison that lets the limit itself in
right_of_or_on(X, limit) == X >= limit
\* X > limit, X < limit
right_of(X, limit) == X > limit
left_of(X, limit) == X < limit

\* the smallest of the keys
causal_limit_min(keys) == SetMin(keys)
\* the causal limit: max(real_parts), max(magnitudes)
causal_limit(keys) == SetMax(keys)

\* the ROC mask at a cell whose X is Xv: all True without poles or for a
\* roc_type that is neither 'causal' nor 'anticausal'; X > max(real_parts) or
\* X < min(real_parts) for laplace, X > max(magnitudes) or X < min(magnitudes)
\* for z (X >= 0 there, and the moduli are compared by their squares)
roc_mask(dm, roc_type, poles, Xv) ==
    LET keys == IF dm = "laplace" THEN {poles[k][1] : k \in DOMAIN poles}
                                  ELSE {norm2(poles[k]) : k \in DOMAIN poles}
        pos  == IF dm = "laplace" THEN Xv ELSE Xv * Xv
    IN  IF poles = <<>> THEN TRUE
        ELSE IF roc_type = "causal" THEN right_of(pos, causal_limit(keys))
        ELSE IF roc_type = "anticausal" THEN left_of(pos, SetMin(keys))
        ELSE TRUE

\* np.where(mask, H_mag, np.nan)
where(mask, h) == IF mask THEN h ELSE NaN
\* the value as it is
clean_keep(val) == val
\* val if not np.isnan(val) else None
clean(val) == IF val.kind = "nan" THEN NoneCell ELSE val

\* the 'ij' indexing
meshgrid_ij(x_vals, y_vals_, i, j) == <<x_vals[i], y_vals_[j]>>
\* np.meshgrid(x_vals, y_vals): X[i][j] = x_vals[j] and Y[i][j] = y_vals[i]
meshgrid(x_vals, y_vals_, i, j) == <<x_vals[j], y_vals_[i]>>

\* the point S of the plane at mesh point (Xv, Yv): X + 1j * Y for laplace,
\* X * np.exp(1j * Y) for z
plane_point(dm, XY) ==
    IF dm = "laplace" THEN XY
    ELSE <<XY[1] * unit(XY[2])[1], XY[1] * unit(XY[2])[2]>>

\* calculate_roc_surface(poles, zeros, gain, domain, roc_type, points,
\* plot_range).  The axes: np.linspace(-plot_range, plot_range, points) twice
\* for laplace; np.linspace(0, plot_range, points) and
\* np.linspace(-pi, pi, points), the latter in quarter turns, for z.
calculate_roc_surface(poles, zeros, gain, dm, roc_type, points, plot_range) ==
    LET x_vals == IF dm = "laplace"
                  THEN linspace(-plot_range, (2 * plot_range) \div (points - 1), points)
                  ELSE linspace(0, plot_range \div (points - 1), points)
        w_vals == IF dm = "laplace"
                  THEN linspace(-plot_range, (2 * plot_range) \div (points - 1), points)
                  ELSE linspace(-2, 4 \div (points - 1), points)
        cell(i, j) ==
            LET XY == meshgrid(x_vals, w_vals, i, j)
                S  == plane_point(dm, XY)
            IN  clean(where(roc_mask(dm, roc_type, poles, XY[1]),
                            minimum(H_mag(S, poles, zeros, gain))))
    IN  [x |-> x_vals, y |-> w_vals,
         z |-> [i \in 1..points |-> [j \in 1..points |-> cell(i, j)]]]

\* the calls: up to two poles and one zero at points with whole parts, the
\* points left at their default or given, a plot_range for which the grid
\* points have whole coordinates
MaxPole == 1
PolePoints == {<<a, 0>> : a \in (-MaxPole)..MaxPole} \cup {<<0, 1>>}
PoleLists == {<<>>} \cup {<<a>> : a \in PolePoints}
                    \cup {<<a, b>> : a \in PolePoints, b \in PolePoints}
ZeroLists == {<<>>, << <<-1, 0>> >>}
Gains == {1, 20}
\* roc_type: 'causal', 'anticausal', or any other text (the mask stays all
\* True for it)
RocTypes == {"causal", "anticausal", "two-sided"}
PointChoices == {None, Some(3), Some(5)}
PlotRanges == {1, 2, 4, 49}
PointsOf(choice) == IF IsNone(choice) THEN points_default ELSE TheVal(choice)
WholeGrid(dm, choice, pr) ==
    IF dm = "laplace" THEN (2 * pr) % (PointsOf(choice) - 1) = 0
    ELSE pr % (PointsOf(choice) - 1) = 0 /\ 4 % (PointsOf(choice) - 1) = 0
SurfaceGrids == {g \in {"laplace", "z"} \X PointChoices \X PlotRanges :
                    WholeGrid(g[1], g[2], g[3])}

\* calculate_roc_surface called
CallSurface ==
    \E poles \in PoleLists, zeros \in ZeroLists, gain \in Gains,
       roc_type \in RocTypes, g \in SurfaceGrids :
        /\ primFn = ""
        /\ UNCHANGED restOfPrim
        /\ primFn' = "calculate_roc_surface"
        /\ primArg' = [poles |-> poles, zeros |-> zeros, gain |-> gain, domain |-> g[1],
                       roc_type |-> roc_type, points |-> g[2], plot_range |-> g[3]]
        /\ primRes' = calculate_roc_surface(poles, zeros, gain, g[1], roc_type,
                                            PointsOf(g[2]), g[3])

vars == <<program, cliVars, primVars, apiVars>>

Init == InitCli /\ InitPrim /\ InitApi

\* one interpreter: it runs convolution.py's main(), time after time, or it
\* serves one /convolution request
Next ==
    \/ \E p \in {1} : Start(p) \/ Ranges(p) \/ MainStep(p) \/ Again(p)
    \/ ApiStep
Spec == Init /\ [][Next]_vars

\* two threads of one interpreter, each running main() once
NextConc == \E p \in Procs : StartConc(p) \/ RangesConc(p) \/ MainStep(p)
SpecConc == Init /\ [][NextConc]_vars

\* the primitives applied to every input within the bounds
NextPrim == CallU \/ CallD \/ CallArea
SpecPrim == Init /\ [][NextPrim]_vars

\* preprocess_expr applied to every text within the bounds
NextText == CallPreprocess
SpecText == Init /\ [][NextText]_vars

\* the scan's thresholding and the two range planners applied to every
\* input within the bounds
NextRange == CallScan \/ CallPickRanges \/ CallApiRanges
SpecRange == Init /\ [][NextRange]_vars

\* the API's discrete convolution applied to every pair of sequences within
\* the bounds, and its period detection to every signal within them
NextSeq == CallDiscrete \/ CallDetectPeriod
SpecSeq == Init /\ [][NextSeq]_vars

\* the surface generator applied to every call within the bounds
NextSurface == CallSurface
SpecSurface == Init /\ [][NextSurface]_vars

\* ------------------------------------------------------------------ claims

\* C1: _estimate_support_of leaves DELTA_WIDTH as it found it on every exit
\* path: whenever the call has just returned an interval, returned None or
\* let the scanned function's exception through, the global equals the value
\* it had when the call was made.
C1_ScanRestoresWidth ==
    \A p \in Procs : pc[p] = "est_ret" => DELTA_WIDTH = callWidth[p]

\* C1's case: the scanned function raised while a width was active before
\* the call (the one an earlier run of main configured).
C1_Witness ==
    \E p \in Procs : /\ pc[p] = "est_ret"
                     /\ scanExit[p] = "raised"
                     /\ ~IsNone(callWidth[p])

\* C2: in a run of main no user signal that refers to d is called while
\* DELTA_WIDTH is unset.
C2_WidthSetBeforeCalls ==
    \A p \in Procs : ~unsetCall[p]

\* C3: once a run of main has completed or failed, DELTA_WIDTH is unset
\* again, so that a later run cannot evaluate d with an earlier grid's width.
C3_WidthUnsetBetweenRuns ==
    \A p \in Procs : pc[p] \in Terminal => IsNone(DELTA_WIDTH)

\* C4: of two computations running side by side neither evaluates d with a
\* width the other wrote (configured or temporary), and neither's scan
\* overwrites the width the other configured and still computes with.
C4_NoSharedWidth ==
    \A p \in Procs : ~readForeign[p] /\ ~clobbered[p]

\* C5: u returns exactly 1 at 0, 0 for every negative and 1 for every
\* positive argument, for a scalar and for each element of an array.
C5_UnitStepValues ==
    primFn = "u" =>
        LET a == asarray(primArg)
        IN  /\ primRes.shape = a.shape
            /\ DOMAIN primRes.data = DOMAIN a.data
            /\ \A i \in DOMAIN a.data :
                 /\ a.data[i] = 0 => primRes.data[i] = 1
                 /\ a.data[i] < 0 => primRes.data[i] = 0
                 /\ a.data[i] > 0 => primRes.data[i] = 1

\* C5's case: u was applied to an array holding a zero, a negative and a
\* positive sample.
C5_Witness ==
    /\ primFn = "u"
    /\ primArg.type = "ndarray"
    /\ \E i, j, k \in DOMAIN primArg.data :
         primArg.data[i] = 0 /\ primArg.data[j] < 0 /\ primArg.data[k] > 0

\* C6: d without an explicit width while DELTA_WIDTH is unset raises; when
\* d does return, its width is the explicit one or else the configured one,
\* never a default.
C6_UnsetWidthRaises ==
    primFn = "d" =>
        /\ (IsNone(primArg.width) /\ IsNone(primArg.ambient)) => primRes.raised
        /\ ~primRes.raised =>
              primRes.den = TheVal(IF ~IsNone(primArg.width) THEN primArg.width
                                   ELSE primArg.ambient)

\* C6's case: d was called with no explicit width while none was configured.
C6_Witness ==
    /\ primFn = "d"
    /\ IsNone(primArg.width)
    /\ IsNone(primArg.ambient)
    /\ primRes.raised

\* C7: with the width set to the grid's spacing, the trapezoidal sum of the
\* impulse approximation over the grid is 1 for every spacing and every
\* centre inside the grid, a centre midway between two grid points included.
C7_ImpulseAreaIsOne ==
    primFn = "area" => primRes.num = primRes.den

\* C8: an evaluation failure at one point of the convolution sweep does not
\* abort the computation: main's sweep goes on after it, and
\* compute_convolution still returns its result with one y value per point.
C8_SweepSurvivesFailure ==
    /\ \A p \in Procs : failedAt[p] = "sweep" => pc[p] # "crashed"
    /\ (apiFailedAt = "loop" /\ apiPc \in {"respond", "answered"}) =>
           (apiResult = "dict" /\ y_vals = t_vals)

\* a text whose evaluator cannot be built by make_fn
BadText(e) == e.hasNp \/ ~e.wellFormed

\* C9: a construction-time failure reaches the caller as an error.  Once
\* make_fn has been applied to a text it cannot build, main holds no callable
\* for it and has exited; once compute_convolution has been handed a text
\* parse_signal rejects, it returns None, never a result, evaluates nothing,
\* and the request is answered with status 400.
C9_ConstructionFailureSurfaces ==
    /\ \A p \in Procs :
         /\ (BadText(X_EXPR[p]) /\ pc[p] \notin {"idle", "make_x"})
               => (pc[p] = "exited" /\ IsNone(x_fn[p]))
         /\ (BadText(H_EXPR[p]) /\ pc[p] \notin {"idle", "make_x", "make_h"})
               => (pc[p] = "exited" /\ IsNone(h_fn[p]))
    /\ ((~x_str.parses \/ ~h_str.parses) /\ apiPc \notin {"idle", "parse"})
          => /\ apiPc \in {"respond", "answered"}
             /\ apiResult = "None"
             /\ y_vals = 0
             /\ apiPc = "answered" => apiStatus = 400

\* C9's case: main built x_fn and then exited because make_fn could not
\* build h_fn.
C9_Witness ==
    \E p \in Procs : /\ pc[p] = "exited"
                     /\ ~BadText(X_EXPR[p])
                     /\ BadText(H_EXPR[p])

\* C10: a text referring to a name outside the primitives and t fails at
\* construction: make_fn never hands main a callable for it.
C10_UnknownNameFailsFast ==
    \A p \in Procs :
        /\ ~IsNone(x_fn[p]) => TheVal(x_fn[p]).names \subseteq ALLOWED_NAMES \cup {"t"}
        /\ ~IsNone(h_fn[p]) => TheVal(h_fn[p]).names \subseteq ALLOWED_NAMES \cup {"t"}

\* the text as the rewriting sees it: stripped, with '^' spelt '**'
normalized(s) == replace_caret(strip(s))

\* An attribute access on a name that is neither a primitive nor t: a '.'
\* whose left neighbour (whitespace apart) ends an identifier outside
\* func_names and t, and whose right neighbour begins a name.
ForeignNamespaceAt(s, i) ==
    /\ s[i] = "."
    /\ LET before == {j \in 1..(i - 1) : s[j] \notin SpaceChars}
           after  == {j \in (i + 1)..Len(s) : s[j] \notin SpaceChars}
       IN  /\ before # {} /\ after # {}
           /\ s[SetMin(after)] \in LetterChars \cup {"_"}
           /\ LET j == CHOOSE m \in before : \A x \in before : x <= m
                  outside == {k \in 1..j : s[k] \notin WordChars}
                  a == IF outside = {} THEN 1
                       ELSE 1 + (CHOOSE m \in outside : \A x \in outside : x <= m)
              IN  /\ a <= j
                  /\ s[a] \in LetterChars \cup {"_"}
                  /\ SubSeq(s, a, j) \notin func_names \cup {<<"t">>}

ReferencesNamespace(s) == \E i \in 1..Len(s) : ForeignNamespaceAt(s, i)

\* C11: a text that refers to a namespace other than the primitives (an
\* attribute access on a foreign name) is rejected by preprocess_expr with an
\* error.
C11_ForeignNamespaceRejected ==
    (primFn = "preprocess" /\ ReferencesNamespace(primArg)) => primRes.raised

\* C12: rewriting is idempotent: preprocess_expr applied to a text it has
\* returned returns that text again.
C12_RewriteIdempotent ==
    (primFn = "preprocess" /\ ~primRes.raised) =>
        preprocess_expr(primRes.s) = primRes

\* one of the enumerated adjacency contexts begins at index i of s
AdjacencyAt(s, i) ==
    \/ SignedNumberT(s, i).ok
    \/ ParenT(s, i)
    \/ TParen(s, i)
    \/ TNumber(s, i).ok
    \/ BeforeFunc(s, i)
    \/ ParenParen(s, i)

HasAdjacency(s) == \E i \in 1..Len(s) : AdjacencyAt(s, i)

\* C13: every occurrence of an adjacency context gets its multiplication
\* sign, so the returned text holds none that still lacks one; a text
\* holding none is returned as it is (stripped, '^' spelt '**'); 't+2' and
\* 't-2' are returned unaltered.
C13_EveryAdjacencyRewritten ==
    (primFn = "preprocess" /\ ~primRes.raised) =>
        /\ ~HasAdjacency(primRes.s)
        /\ ~HasAdjacency(normalized(primArg)) => primRes.s = normalized(primArg)
        /\ primArg \in {<<"t", "+", "2">>, <<"t", "-", "2">>} => primRes.s = primArg

\* C14: _estimate_support_of returns (lo, hi) with lo the first and hi the
\* last scan-grid point whose sample exceeds the tolerance in magnitude, and
\* returns None exactly when no sample of the scan exceeds it.  The sample at
\* a grid point is the scanned function's value there (a function that
\* returns a scalar has that value at every point).
C14_ScanBracketsExceeding ==
    primFn = "scan" =>
        LET grid == primArg.grid
            vals == primArg.vals
            sample(k) == IF vals.shape = "0d" THEN vals.data[1] ELSE vals.data[k]
            exceeding == {k \in DOMAIN grid : Abs(sample(k)) > tol}
        IN  IF exceeding = {}
            THEN primRes.kind = "None"
            ELSE /\ primRes.kind = "interval"
                 /\ primRes.lo = grid[SetMin(exceeding)]
                 /\ primRes.hi = grid[CHOOSE m \in exceeding : \A x \in exceeding : x <= m]

\* C15: when both support estimates are None, pick_ranges_auto returns the
\* window [-2, 6] for the output axis and for the tau axis.
C15_FallbackWindow ==
    (primFn = "pick_ranges_auto" /\ IsNone(primArg.sx) /\ IsNone(primArg.sh)) =>
        primRes = [t_min |-> -2 * Scale, t_max |-> 6 * Scale,
                   tau_min |-> -2 * Scale, tau_max |-> 6 * Scale]

\* C15's case: the planner was applied to two estimates that are None.
C15_Witness ==
    primFn = "pick_ranges_auto" /\ IsNone(primArg.sx) /\ IsNone(primArg.sh)

\* C16: when both supports (lo1, hi1) and (lo2, hi2) are known, the
\* tau-window is [min(lo1, lo2) - p, max(hi1, hi2) + p] and the output window
\* [lo1 + lo2 - q, hi1 + hi2 + q], each pad the larger of 0.5 and 12% of the
\* width of its unexpanded interval (all in hundredths here).
C16_WindowsFromSupports ==
    (primFn = "pick_ranges_auto" /\ ~IsNone(primArg.sx) /\ ~IsNone(primArg.sh)) =>
        LET lo1 == TheVal(primArg.sx)[1]
            hi1 == TheVal(primArg.sx)[2]
            lo2 == TheVal(primArg.sh)[1]
            hi2 == TheVal(primArg.sh)[2]
            ulo == Min2(lo1, lo2)
            uhi == Max2(hi1, hi2)
            p   == Max2(50, 12 * (uhi - ulo))
            q   == Max2(50, 12 * ((hi1 + hi2) - (lo1 + lo2)))
        IN  /\ primRes.tau_min = 100 * ulo - p
            /\ primRes.tau_max = 100 * uhi + p
            /\ primRes.t_min = 100 * (lo1 + lo2) - q
            /\ primRes.t_max = 100 * (hi1 + hi2) + q

\* C16's case: two known supports whose union is wide enough for the 12%
\* margin to exceed 0.5 while the other is a single point.
C16_Witness ==
    /\ primFn = "pick_ranges_auto"
    /\ ~IsNone(primArg.sx)
    /\ ~IsNone(primArg.sh)
    /\ TheVal(primArg.sx)[2] - TheVal(primArg.sx)[1] >= 5
    /\ TheVal(primArg.sh)[1] = TheVal(primArg.sh)[2]

\* C17: every window the planning returns is non-degenerate, whatever the
\* two estimates (an interval, a single point, or None): t_min < t_max and
\* tau_min < tau_max, for pick_ranges_auto and for compute_convolution.
C17_WindowsNonDegenerate ==
    primFn \in {"pick_ranges_auto", "api_ranges"} =>
        /\ primRes.t_min < primRes.t_max
        /\ primRes.tau_min < primRes.tau_max

\* C17's case: pick_ranges_auto was handed the same single point for both
\* signals, so that both unexpanded intervals have width zero.
C17_Witness ==
    /\ primFn = "pick_ranges_auto"
    /\ ~IsNone(primArg.sx)
    /\ primArg.sx = primArg.sh
    /\ TheVal(primArg.sx)[1] = TheVal(primArg.sx)[2]

\* the same for compute_convolution's discrete ranges
C17_WitnessApi ==
    /\ primFn = "api_ranges"
    /\ primArg.domain = "discrete"
    /\ ~IsNone(primArg.sx)
    /\ primArg.sx = primArg.sh
    /\ TheVal(primArg.sx)[1] = TheVal(primArg.sx)[2]

\* C18: a returned convolution result holds exactly one output value per
\* domain value, len(y) = len(t), in the continuous and the discrete case.
C18_OneOutputPerDomainValue ==
    apiResult = "dict" => y_vals = t_vals

\* C18's case: a discrete convolution was returned.
C18_Witness ==
    apiResult = "dict" /\ domain = "discrete" /\ apiPc = "answered"

\* C19: the frames are taken from the domain grid in strictly increasing
\* domain order, each one's t a domain value and none repeated; a frame's
\* h_shifted has one sample per point of the tau grid, and its current_y is
\* the output value at its own domain point.  For compute_convolution's
\* frames and for the frames main renders.
C19_FramesInDomainOrder ==
    /\ \A k \in 1..Len(frames) :
         /\ frames[k].t \in 1..t_vals
         /\ k > 1 => frames[k - 1].t < frames[k].t
         /\ frames[k].h_shifted = tau_len(domain, sx, sh)
         /\ frames[k].current_y = frames[k].t
         /\ frames[k].current_y <= y_vals
    /\ \A p \in Procs :
         pc[p] \in {"anim_h", "anim_x"} =>
            \A step \in GridSteps :
               LET k == ti[p]
                   f == anim_frame(k, linspace(0, step, NumT))
               IN  /\ f.t \in 0..(NumT - 1)
                   /\ k > 0 => anim_frame(k - 1, linspace(0, step, NumT)).t < f.t
                   /\ f.current_y = f.t

\* C19's case: a result was returned whose kernel is a constant, so that each
\* frame's samples come from broadcasting a scalar over the tau grid.
C19_Witness ==
    /\ apiResult = "dict"
    /\ h_str.scalar
    /\ Len(frames) = t_vals
    /\ Len(frames) > 1

\* the same for main: a frame after the first is being rendered
C19_WitnessCli ==
    \E p \in Procs : pc[p] = "anim_x" /\ ti[p] > 0

\* C20: the number of frames of a convolution result is at most 120,
\* whatever the signals and their estimated supports, in the continuous and
\* the discrete case; main renders at most FRAMES frames.
C20_FrameCountBounded ==
    /\ Len(frames) <= 120
    /\ NumFrames <= 120
    /\ \A p \in Procs : pc[p] \in {"anim_h", "anim_x"} => ti[p] < NumFrames

\* C20's case: a discrete result for two signals whose supports both span
\* the whole scan window, the longest domain grid there is.
C20_Witness ==
    /\ apiResult = "dict"
    /\ domain = "discrete"
    /\ sx = Some(<<-ScanHi, ScanHi>>)
    /\ sh = Some(<<-ScanHi, ScanHi>>)
    /\ Len(frames) = 4 * ScanHi + 2 * PadD + 1

\* the window compute_convolution takes for a sequence: its estimated
\* support, or (-5, 5) when the estimate is None
WindowOf(e) == IF IsNone(e) THEN <<-DefaultD, DefaultD>> ELSE TheVal(e)

\* C21: the discrete index grid of compute_convolution is the sequence of
\* the integers from lo1 + lo2 - 5 to hi1 + hi2 + 5, both ends included,
\* where (lo1, hi1) and (lo2, hi2) are the windows of the two sequences
C21_DiscreteIndexGrid ==
    primFn = "discrete_convolution" =>
        LET w1 == WindowOf(primRes.sx)
            w2 == WindowOf(primRes.sh)
            lo == (w1[1] + w2[1]) - 5
            hi == (w1[2] + w2[2]) + 5
        IN  primRes.t = [i \in 1..((hi - lo) + 1) |-> lo + (i - 1)]
C21_Witness ==
    /\ primFn = "discrete_convolution"
    /\ primRes.sx = Some(<<-ScanHi, -ScanHi + 1>>)
    /\ primRes.sh = Some(<<ScanHi - 1, ScanHi>>)
    /\ primRes.t[1] = -6
    /\ primRes.t[Len(primRes.t)] = 6

\* the sum of x[k] * h[n - k] over every k of the scanned window
RECURSIVE ExactSum(_, _, _, _)
ExactSum(xf, hf, n_, k) ==
    IF k > ScanHi THEN 0
    ELSE at(xf, k) * at(hf, n_ - k) + ExactSum(xf, hf, n_, k + 1)

PeriodsOf(sig, max_N) ==
    {N \in 1..max_N :
        /\ 2 * N < max_N
        /\ \A i \in 0..((max_N - N) - 1) : x_func(sig, i) = x_func(sig, i + N)}

\* C28: detect_period_dt returns the smallest N with 1 <= N < max_N / 2 such
\* that x[i] equals x[i + N] within 1e-6 for every i with 0 <= i < max_N - N,
\* and None when there is no such N
C28_SmallestPeriodOrNone ==
    primFn = "detect_period_dt" =>
        LET ps == PeriodsOf(primArg.signal, primArg.max_N)
        IN  primRes = IF ps = {} THEN None ELSE Some(SetMin(ps))

\* the one estimate that is known, when exactly one is
KnownOf(a) == IF IsNone(a.sx) THEN TheVal(a.sh) ELSE TheVal(a.sx)

\* C29: when exactly one of the two estimates is None, pick_ranges_auto
\* treats the missing one as the point 0: the output window is the expansion
\* of the known support alone, and the tau window is the expansion of the
\* smallest interval that contains the known support and 0
C29_MissingSupportIsZero ==
    (primFn = "pick_ranges_auto" /\ IsNone(primArg.sx) # IsNone(primArg.sh)) =>
        LET known == KnownOf(primArg)
            out   == expand(known[1], known[2])
            hull  == expand(Min2(known[1], 0), Max2(known[2], 0))
        IN  /\ primRes.t_min = out[1]
            /\ primRes.t_max = out[2]
            /\ primRes.tau_min = hull[1]
            /\ primRes.tau_max = hull[2]
\* x's support was not found, h's is [1, 3], which does not contain 0
C29_Witness ==
    /\ primFn = "pick_ranges_auto"
    /\ IsNone(primArg.sx)
    /\ primArg.sh = Some(<<1, 3>>)
    /\ primRes.t_min = 50
    /\ primRes.t_max = 350
    /\ primRes.tau_min = -50
    /\ primRes.tau_max = 350

\* the surface generator has returned
Surfaced == primFn = "calculate_roc_surface"
\* the point of the plane that row i, column j of z stands for
SurfacePoint(i, j) == plane_point(primArg.domain, <<primRes.x[j], primRes.y[i]>>)
\* |H| there, before any clamping
Unclamped(i, j) == H_mag(SurfacePoint(i, j), primArg.poles, primArg.zeros, primArg.gain)
\* a magnitude of at most 1000
AtMost1000(c) == IF c.eps THEN c.n = 0 ELSE c.n = 0 \/ (c.n - 1) \div 1000000 < c.d

\* C23: the point count per axis is clamp(2 * plot_range, 50, 200), for a
\* call that leaves the resolution to the generator
C23_AdaptivePointCount ==
    (Surfaced /\ IsNone(primArg.points)) =>
        LET count == Max2(50, Min2(2 * primArg.plot_range, 200))
        IN  Len(primRes.x) = count /\ Len(primRes.y) = count

\* the cell at row i, column j lies in the region of convergence: to the
\* right of every pole (causal) or to the left of every pole (anticausal),
\* by real part for laplace and by modulus for z
InRoc(i, j) ==
    \A k \in DOMAIN primArg.poles :
        LET S   == SurfacePoint(i, j)
            pk  == primArg.poles[k]
            at_ == IF primArg.domain = "laplace" THEN S[1] ELSE norm2(S)
            lim == IF primArg.domain = "laplace" THEN pk[1] ELSE norm2(pk)
        IN  IF primArg.roc_type = "causal" THEN at_ > lim ELSE at_ < lim

\* C24: with at least one pole, a causal region keeps exactly the cells with
\* Re(S) > max(Re(poles)) (laplace) or |S| > max|poles| (z), an anticausal
\* one exactly those with Re(S) < min(Re(poles)) or |S| < min|poles|; every
\* other cell is masked, every kept cell is a finite number, and with no
\* poles no cell is masked
C24_RocMasking ==
    Surfaced =>
        \A i \in DOMAIN primRes.z : \A j \in DOMAIN primRes.z[i] :
            LET c == primRes.z[i][j]
            IN  /\ primArg.poles = <<>> => c.kind = "float"
                /\ (primArg.poles # <<>> /\ primArg.roc_type \in {"causal", "anticausal"}) =>
                       IF InRoc(i, j) THEN c.kind = "float" ELSE c.kind = "None"
\* a pole at -1, no zeros, causal, laplace, the default resolution: the
\* column of sigma = -1 is masked, the next one (sigma = 1) is not
C24_Witness ==
    /\ Surfaced
    /\ primArg.poles = << <<-1, 0>> >>
    /\ primArg.zeros = <<>>
    /\ primArg.domain = "laplace"
    /\ primArg.roc_type = "causal"
    /\ IsNone(primArg.points)
    /\ primRes.x[25] = -1
    /\ \A i \in DOMAIN primRes.z :
           /\ primRes.z[i][1].kind = "None"
           /\ primRes.z[i][25].kind = "None"
           /\ primRes.z[i][26].kind = "float"

\* C25: if there is a pole, |H| is clamped to a level between 10 and 1000
\* (max(10, min(1.5 * 90th percentile, 1000))), so that a cell is |H| itself
\* wherever |H| <= 10 and never above 1000; with no poles |H| is not clamped
\* at all, and a value above 10 is emitted unchanged
C25_ClampOnlyWithPoles ==
    Surfaced =>
        \A i \in DOMAIN primRes.z : \A j \in DOMAIN primRes.z[i] :
            LET c == primRes.z[i][j]
                h == Unclamped(i, j)
            IN  c.kind = "float" =>
                    IF primArg.poles = <<>> THEN c = h
                    ELSE AtMost1000(c) /\ (~above_max(h) => c = h)

\* C26: every cell of z is a finite number or None, never NaN or an
\* infinity, the grid points that lie exactly on a pole included
C26_CellsFiniteOrNone ==
    Surfaced =>
        \A i \in DOMAIN primRes.z : \A j \in DOMAIN primRes.z[i] :
            primRes.z[i][j].kind \in {"float", "None"}
\* the grid point 0 is the pole and is not masked: its cell is the cap
C26_Witness ==
    /\ Surfaced
    /\ primArg.poles = << <<0, 0>> >>
    /\ primArg.domain = "laplace"
    /\ primArg.roc_type = "two-sided"
    /\ primArg.points = Some(3)
    /\ SurfacePoint(2, 2) = <<0, 0>>
    /\ Unclamped(2, 2).eps
    /\ primRes.z[2][2] = Float(MAX_HEIGHT * MAX_HEIGHT, 1, FALSE)

\* the surface at the point (xv, yv) of the axes
SurfaceAt(xv, yv) ==
    clean(where(roc_mask(primArg.domain, primArg.roc_type, primArg.poles, xv),
                minimum(H_mag(plane_point(primArg.domain, <<xv, yv>>),
                              primArg.poles, primArg.zeros, primArg.gain))))

\* C27: z has one row per y value and one column per x value, for laplace
\* and for z: row i, column j is the surface at (x[j], y[i])
C27_RowsAreY ==
    Surfaced =>
        /\ Len(primRes.z) = Len(primRes.y)
        /\ \A i \in DOMAIN primRes.z :
              /\ Len(primRes.z[i]) = Len(primRes.x)
              /\ \A j \in DOMAIN primRes.z[i] :
                     primRes.z[i][j] = SurfaceAt(primRes.x[j], primRes.y[i])
\* z plane, radii 0, 1, 2 along the columns, a pole of modulus 1, causal:
\* the columns of the radii 0 and 1 are masked in every row
C27_Witness ==
    /\ Surfaced
    /\ primArg.domain = "z"
    /\ primArg.roc_type = "causal"
    /\ primArg.poles = << <<-1, 0>> >>
    /\ primRes.x = <<0, 1, 2>>
    /\ Len(primRes.y) = 3
    /\ Len(primRes.z) = 3
    /\ \A i \in 1..3 :
           /\ primRes.z[i][1].kind = "None"
           /\ primRes.z[i][2].kind = "None"
           /\ primRes.z[i][3].kind = "float"

\* C30: with a causal or anticausal region and at least one pole, no
\* unmasked cell coincides with a pole (laplace) or lies on a pole's radius
\* (z)
C30_NoKeptCellOnPole ==
    (Surfaced /\ primArg.poles # <<>> /\ primArg.roc_type \in {"causal", "anticausal"}) =>
        \A i \in DOMAIN primRes.z : \A j \in DOMAIN primRes.z[i] :
            primRes.z[i][j].kind # "None" =>
                \A k \in DOMAIN primArg.poles :
                    IF primArg.domain = "laplace"
                    THEN SurfacePoint(i, j) # primArg.poles[k]
                    ELSE norm2(SurfacePoint(i, j)) # norm2(primArg.poles[k])
\* the grid point 0 is the pole: it is masked, the column to its right is kept
C30_Witness ==
    /\ Surfaced
    /\ primArg.poles = << <<0, 0>> >>
    /\ primArg.domain = "laplace"
    /\ primArg.roc_type = "causal"
    /\ primArg.points = Some(3)
    /\ primArg.plot_range = 1
    /\ SurfacePoint(2, 2) = <<0, 0>>
    /\ primRes.z[2][2].kind = "None"
    /\ primRes.z[2][3].kind = "float"

====
